---------------------------- MODULE Spec2Model ----------------------------
(***************************************************************************)
(* The Hyperalignment estimator of hyperalignment_scripts/hyperalignment.py *)
(* as a state machine: one engine instance, a pool of caller-owned dataset  *)
(* arrays, and one action per public method.                                *)
(*                                                                         *)
(* Matrices are modelled by what the control flow of the code depends on:   *)
(* their shape, whether all rows are identical (zero norm once centred),    *)
(* and a term `val` naming the value (which array, normalised how,          *)
(* multiplied by which transformation).  Centring is idempotent in exact    *)
(* arithmetic, so the normalised value of an array does not depend on       *)
(* whether the array was already centred in place; the in-place centring    *)
(* itself is tracked in `centred`.  The data-dependent outcomes of the      *)
(* floating-point computation (the pass whose mean disparity falls below    *)
(* the cutoff, an overflow of the aligned source) are inputs of fit.        *)
(* Datasets are float arrays given as a Python list of distinct objects.    *)
(* In floating point the column means of a centred array are rounding       *)
(* residues, not zeros, so centring the stored template again in place may  *)
(* or may not move its elements: that outcome is an input of the call.      *)
(***************************************************************************)
EXTENDS Integers, Sequences, FiniteSets, TLC

\* ------------------------------------------------------------- bounds
NData == 2        \* dataset arrays owned by the caller
MaxIter == 2      \* largest n_iterations given at construction
MaxFits == 2      \* fit calls per engine instance

Ids == 1..NData

\* The shapes and contents the caller's arrays are drawn from.
Kinds ==
  << [rows |-> 3, cols |-> 4, degen |-> FALSE],
     [rows |-> 2, cols |-> 4, degen |-> FALSE],
     [rows |-> 3, cols |-> 3, degen |-> FALSE],
     [rows |-> 3, cols |-> 4, degen |-> TRUE] >>

\* n_features_target values given at construction (0 = use the input's).
Targets == {0, 3}

Min(a, b) == IF a < b THEN a ELSE b

\* Python lists of distinct array objects, of every length 0..NData.
RECURSIVE ListsOfLen(_)
ListsOfLen(n) ==
  IF n = 0 THEN { <<>> }
  ELSE { Append(s, i) : s \in ListsOfLen(n - 1), i \in Ids }

Injective(s) == \A i, j \in 1..Len(s) : i # j => s[i] # s[j]

Lists == UNION { { s \in ListsOfLen(n) : Injective(s) } : n \in 0..NData }

\* Data-dependent numerical outcomes of one fit call:
\*   conv : the refinement pass whose mean disparity is below 0.1 (0: none)
\*   ovf  : where the aligned source overflows to an infinite norm
Overflows == { <<"none", 0>>, <<"init", 0>>, <<"final", 0>> }
               \cup { <<"pass", j>> : j \in 1..MaxIter }

Numerics == [ conv : 0..MaxIter, ovf : Overflows ]

\* Disparity levels in thousandths: the literal of line 282 and the
\* convergence_threshold values given at construction (default 0.001).
Cutoff == 100

Thresholds == { 1, 500 }

\* ------------------------------------------------------------- state
VARIABLES
  pool,               \* the caller's arrays: id -> [rows, cols, degen]
  centred,            \* ids of the arrays that were centred in place
  attrs,              \* names of the attributes the instance has (hasattr)
  n_iterations,       \* self.n_iterations
  scaling,            \* self.scaling
  center_only,        \* self.center_only
  convergence_threshold,  \* self.convergence_threshold
  n_features_target,  \* self.n_features_target
  n_features_in,      \* self.n_features_in
  training_data,      \* self.training_data (<<>> is None)
  transformations,    \* self.transformations
  template,           \* self.template
  aligned_data,       \* self.aligned_data
  disparity,          \* self.disparity
  scaling_factors,    \* self.scaling_factors
  cfg,                \* the arguments the constructor was given
  calls,              \* fit calls made so far
  last_ok,            \* the number of the last fit call that returned (0: none)
  ret,                \* what the last call did and returned
  peer,               \* a second engine instance with its own datasets
  driver              \* a run of a v2 driver function (run_hyperalignment_v2.py)

engine == << attrs, n_iterations, scaling, center_only, convergence_threshold,
             n_features_target,
             n_features_in, training_data, transformations, template,
             aligned_data, disparity, scaling_factors >>

outputs == << transformations, template, aligned_data, disparity, scaling_factors >>

vars == << pool, centred, engine, cfg, calls, last_ok, ret, peer, driver >>

None == <<>>

OutputAttrs == { "transformations", "template", "aligned_data", "disparity",
                 "scaling_factors" }

\* ------------------------------------------------------------- matrices
NoMat == [ ndim |-> 0, rows |-> 0, cols |-> 0, degen |-> FALSE, val |-> <<>> ]

\* np.array([0]): the 1-D integer array _create_initial_template returns
Sentinel == [ ndim |-> 1, rows |-> 1, cols |-> 1, degen |-> TRUE, val |-> <<"zero1d">> ]

\* The caller's array with identity id
DataMat(id) ==
  [ ndim |-> 2, rows |-> pool[id].rows, cols |-> pool[id].cols,
    degen |-> pool[id].degen, val |-> <<"data", id>> ]

\* A fresh array computed inside fit
Fresh(rows, cols, degen, val) ==
  [ ndim |-> 2, rows |-> rows, cols |-> cols, degen |-> degen, val |-> val ]

\* ------------------------------------------------------------- helpers
\* Value terms (tuples, tag first):
\*   <<"data", id>>            the caller's array id
\*   <<"norm", v, unit>>       v centred (and divided by its norm if unit)
\*   <<"R", src, tgt, scaled>> the Procrustes map of src onto tgt
\*   <<"mul", x, R>>           x @ R
\*   <<"disp", tgt, y>>        sum of squares of tgt - y
\*   <<"scale", R>> / <<"one">>  sum of singular values / 1.0
\*   <<"template", call, pass, reduced>> the template of a fit call
\*   <<"recentred", call, pass, reduced>> that template centred again in place

\* the zero-norm test made only where the norm is used as a divisor
normalize_data_dividing_only(X, co) ==
  IF X.ndim = 1
  THEN [ err |-> "TypeError", centres |-> FALSE, out |-> NoMat ]
  ELSE IF X.degen /\ ~co
  THEN [ err |-> "DegenerateInput", centres |-> TRUE, out |-> NoMat ]
  ELSE [ err |-> "none", centres |-> TRUE,
         out |-> [ X EXCEPT !.val = <<"norm", X.val, ~co>> ] ]

\* _normalize_data: X -= mean (in place), then the zero-norm test, then X or
\* X / norm.  err is the exception raised; centres says whether the in-place
\* subtraction was carried out on the argument.
normalize_data(X, co) ==
  IF X.ndim = 1
  THEN [ err |-> "TypeError", centres |-> FALSE, out |-> NoMat ]
  ELSE IF X.degen
  THEN [ err |-> "DegenerateInput", centres |-> TRUE, out |-> NoMat ]
  ELSE [ err |-> "none", centres |-> TRUE,
         out |-> [ X EXCEPT !.val = <<"norm", X.val, ~co>> ] ]

\* _disparity
disparity_of(M1, M2) == <<"disp", M1.val, M2.val>>

NoResult ==
  [ err |-> "none", none |-> FALSE, ctgt |-> FALSE, csrc |-> FALSE,
    R |-> NoMat, new_source |-> NoMat, disp |-> <<>>, scale |-> <<>> ]

\* _procrustes from line 126 on: tn and sn are the results of normalising the
\* target and the source (lines 124-125).
procrustes_of(source, target, tn, sn, reduction, scaling_, overflow) ==
  LET n_features_source == source.cols
      n_features_target_ == target.cols
      pad == n_features_source > n_features_target_
      red == reduction \/ pad
      \* target_norm after the zero padding: as many columns as the source
      tcols == IF pad THEN n_features_source ELSE n_features_target_
      \* U is square of the source's width, vt of the padded target's width;
      \* R = R[:n_features_source, :n_features_target] when reducing
      Rcols == IF red THEN Min(n_features_target_, tcols) ELSE tcols
      Rval == <<"R", sn.out.val, tn.out.val, scaling_>>
      y == <<"mul", sn.out.val, Rval>>
  IN  IF tn.err # "none"
      THEN [ NoResult EXCEPT !.err = tn.err, !.ctgt = tn.centres ]
      ELSE IF sn.err # "none"
      THEN [ NoResult EXCEPT !.err = sn.err, !.ctgt = TRUE, !.csrc = sn.centres ]
      ELSE IF source.rows # target.rows \/ tcols # n_features_source
      THEN [ NoResult EXCEPT !.err = "ValueError", !.ctgt = TRUE, !.csrc = TRUE ]
      ELSE IF overflow
      THEN [ NoResult EXCEPT !.none = TRUE, !.ctgt = TRUE, !.csrc = TRUE ]
      ELSE [ err |-> "none", none |-> FALSE, ctgt |-> TRUE, csrc |-> TRUE,
             R |-> Fresh(n_features_source, Rcols, FALSE, Rval),
             new_source |-> Fresh(source.rows, Rcols, FALSE, y),
             disp |-> <<"disp", tn.out.val, y>>,
             scale |-> IF scaling_ THEN <<"scale", Rval>> ELSE <<"one">> ]

\* _procrustes(source, target, reduction, scaling) under center_only = co;
\* overflow says whether the norm of the aligned source is infinite.
\* Result: err (exception raised), none (returned None), ctgt / csrc (the
\* argument was centred in place), and the tuple R, new_source, disp, scale.
procrustes(source, target, reduction, scaling_, co, overflow) ==
  procrustes_of(source, target, normalize_data(target, co),
                normalize_data(source, co), reduction, scaling_, overflow)

\* A call whose result the caller can unpack into four values
Unpacks(r) == r.err = "none" /\ ~r.none

NoCalls == [ err |-> "none", centres |-> {}, nproc |-> 0, results |-> <<>> ]

\* the loop going on with a call that returned None
each_result_lenient(x, role, r, rest) ==
  LET touched == IF role = "source" THEN r.csrc ELSE r.ctgt
      c == IF touched /\ x.val[1] = "data" THEN { x.val[2] } ELSE {}
  IN  IF r.err # "none"
      THEN [ err |-> r.err, centres |-> c, nproc |-> 1, results |-> <<>> ]
      ELSE [ err |-> rest.err, centres |-> c \cup rest.centres,
             nproc |-> 1 + rest.nproc, results |-> <<r>> \o rest.results ]

\* One iteration of a loop over datasets: r is the result of the _procrustes
\* call in which the dataset x had the given role, rest the remaining
\* iterations.  A call that raises, or returns None to a caller that unpacks
\* it, ends the loop.
each_result(x, role, r, rest) ==
  LET touched == IF role = "source" THEN r.csrc ELSE r.ctgt
      c == IF touched /\ x.val[1] = "data" THEN { x.val[2] } ELSE {}
  IN  IF ~Unpacks(r)
      THEN [ err |-> IF r.none THEN "TypeError" ELSE r.err,
             centres |-> c, nproc |-> 1, results |-> <<>> ]
      ELSE [ err |-> rest.err, centres |-> c \cup rest.centres,
             nproc |-> 1 + rest.nproc, results |-> <<r>> \o rest.results ]

\* for x in W: one _procrustes call per element, in list order, with the
\* element as the source (role "source": _procrustes(x, T)) or as the target
\* (role "target": _procrustes(T, x)).  ovf: the first call overflows.
\* centres: the caller's arrays that were centred in place.
RECURSIVE procrustes_each(_, _, _, _, _, _, _)
procrustes_each(W, k, T, role, reduction, co, ovf) ==
  IF k > Len(W)
  THEN NoCalls
  ELSE IF role = "source"
  THEN each_result(W[k], role,
                   procrustes(W[k], T, reduction, scaling, co, ovf /\ k = 1),
                   procrustes_each(W, k + 1, T, role, reduction, co, ovf))
  ELSE each_result(W[k], role,
                   procrustes(T, W[k], reduction, scaling, co, ovf /\ k = 1),
                   procrustes_each(W, k + 1, T, role, reduction, co, ovf))

Mats(X) == [ k \in 1..Len(X) |-> DataMat(X[k]) ]

\* the build returning what it has accumulated when a step failed
initial_template_lenient(first, s, call) ==
  [ tmpl |-> Fresh(first.rows, first.cols, FALSE, <<"template", call, 0, FALSE>>),
    centres |-> s.centres, nproc |-> s.nproc ]

\* The result of _create_initial_template given the outcome s of its loop
initial_template_of(first, s, call) ==
  [ tmpl |-> IF s.err = "none"
             THEN Fresh(first.rows, first.cols, FALSE, <<"template", call, 0, FALSE>>)
             ELSE Sentinel,
    centres |-> s.centres, nproc |-> s.nproc ]

\* template / i: the running sum that starts as a copy of X[0]
accumulator(first, call) ==
  Fresh(first.rows, first.cols, first.degen, <<"acc", call>>)

\* _create_initial_template over self.training_data = X: a copy of X[0],
\* then each later dataset is the target of _procrustes(template / i, x) and
\* the aligned result is added; any exception (bare except) gives the 1-D
\* sentinel; the sum is divided by len(X).
create_initial_template(X, co, ovf, call) ==
  initial_template_of(
    DataMat(X[1]),
    procrustes_each(Tail(Mats(X)), 1, accumulator(DataMat(X[1]), call),
                    "target", FALSE, co, ovf),
    call)

\* The result of _create_level2_template given the outcome s of its loop
level2_template_of(template_prev, s, call, pass) ==
  [ err |-> s.err, centres |-> s.centres, nproc |-> s.nproc,
    tmpl |-> Fresh(template_prev.rows, template_prev.cols, FALSE,
                   <<"template", call, pass, FALSE>>) ]

\* _create_level2_template(datasets, template_prev): every dataset is the
\* target of _procrustes(template_prev, x); the aligned results are averaged.
create_level2_template(datasets, template_prev, co, ovf, call, pass) ==
  level2_template_of(
    template_prev,
    procrustes_each(datasets, 1, template_prev, "target", FALSE, co, ovf),
    call, pass)

\* the break test reading self.convergence_threshold in place of the literal
loop_ends_by_threshold(j, cap, num) ==
  (num.conv = j /\ convergence_threshold >= Cutoff) \/ j >= cap

\* the iteration cap off by one
loop_ends_late(j, cap, num) == num.conv = j \/ j > cap

\* Whether pass j is the last one: np.mean(disps) < 0.1 breaks (line 282),
\* or range(self.n_iterations) is exhausted (line 268)
loop_ends(j, cap, num) == num.conv = j \/ j >= cap

\* What the loop has done when it ends in pass j
pass_result(err, j, tmpl, l2, re) ==
  [ err |-> err, passes |-> j, tmpl |-> tmpl, working |-> <<>>,
    centres |-> l2.centres \cup re.centres, nproc |-> l2.nproc + re.nproc ]

\* ... and when later passes (rest) follow pass j
with_pass(l2, re, rest) ==
  [ rest EXCEPT !.centres = @ \cup l2.centres \cup re.centres,
                !.nproc = @ + l2.nproc + re.nproc ]

\* aligned = aligned1 (line 286): the arrays aligned in pass j
adopted(re, call, j) ==
  [ k \in 1..Len(re.results) |->
      [ re.results[k].new_source EXCEPT !.val = <<"aligned", call, j, k>> ] ]

RECURSIVE refine(_, _, _, _, _, _, _)

\* the newly aligned set adopted by every pass
working_after_adopting(j, aligned, num, re, call) == adopted(re, call, j)

\* The working set `aligned` after pass j (lines 282-286): the break leaves
\* it as it was, otherwise the pass's newly aligned set replaces it
working_after(j, aligned, num, re, call) ==
  IF num.conv = j THEN aligned ELSE adopted(re, call, j)

\* Pass j from line 279 on: re is the outcome of the loop of lines 272-277
refine_aligned(j, cap, aligned, co, num, call, l2, re) ==
  IF re.err # "none"
  THEN [ pass_result(re.err, j, l2.tmpl, l2, re) EXCEPT !.working = aligned ]
  ELSE IF loop_ends(j, cap, num)
  THEN [ pass_result("none", j, l2.tmpl, l2, re)
         EXCEPT !.working = working_after(j, aligned, num, re, call) ]
  ELSE with_pass(l2, re,
                 refine(j + 1, cap, adopted(re, call, j), l2.tmpl, co, num, call))

\* Pass j from line 271 on: l2 is the outcome of _create_level2_template
refine_templated(j, cap, aligned, tmpl, co, num, call, l2) ==
  IF l2.err # "none"
  THEN [ pass_result(l2.err, j, tmpl, l2, NoCalls) EXCEPT !.working = aligned ]
  ELSE refine_aligned(j, cap, aligned, co, num, call, l2,
         procrustes_each(aligned, 1, l2.tmpl, "source", FALSE, co, FALSE))

\* The body of `for i in range(self.n_iterations)` from pass j on (lines
\* 268-287): cap is self.n_iterations, aligned the working set, tmpl the
\* template.  passes is the number of passes started (i + 1 at the end).
refine(j, cap, aligned, tmpl, co, num, call) ==
  refine_templated(j, cap, aligned, tmpl, co, num, call,
    create_level2_template(aligned, tmpl, co, co /\ num.ovf = <<"pass", j>>,
                           call, j))

\* _reduce_dimensionality: SVD with full_matrices=False gives Vh of
\* min(n_samples, n_features) rows; components = Vh[:n_components].T, and
\* the result is template @ components
reduce_dimensionality(tmpl, n_components) ==
  LET n_samples == tmpl.rows
      n_features == tmpl.cols
      vh_rows == Min(n_samples, n_features)
  IN  Fresh(n_samples, Min(n_components, vh_rows), FALSE,
            <<"template", tmpl.val[2], tmpl.val[3], TRUE>>)

\* ------------------------------------------------------------- fit
\* What a call did: its argument, the exception raised ("none": it
\* returned), the data returned, and for fit the pass whose mean disparity
\* was below the cutoff (0: none), the number of initial-template builds,
\* the initial template the last build returned, the refinement passes
\* started, the _procrustes calls made, where the aligned source would
\* overflow, and the working set `aligned` a returning fit ended with.
Outcome(op, X, err, val, builds, passes, nproc) ==
  [ op |-> op, call |-> calls, X |-> X, conv |-> 0, ovf |-> <<"none", 0>>,
    err |-> err, val |-> val,
    builds |-> builds, built |-> NoMat, passes |-> passes, nproc |-> nproc,
    working |-> <<>> ]

\* The attribute values of the instance
Attributes ==
  [ attrs |-> attrs, n_iterations |-> n_iterations, center_only |-> center_only,
    n_features_target |-> n_features_target, n_features_in |-> n_features_in,
    training_data |-> training_data, transformations |-> transformations,
    template |-> template, aligned_data |-> aligned_data,
    disparity |-> disparity, scaling_factors |-> scaling_factors ]

\* the length test off by one: a single dataset passes
too_few_off_by_one(X) == Len(X) < 1

\* len(X) < 2 (line 237)
too_few(X) == Len(X) < 2

\* the feature-count test left out
same_features_unchecked(X) == TRUE

\* all(x.shape[1] == self.n_features_in for x in X) (line 252)
same_features(X) == \A k \in 1..Len(X) : pool[X[k]].cols = pool[X[1]].cols

\* fit discarding the previous model as it starts
fit_prologue_resetting(X) ==
  [ Attributes EXCEPT !.attrs = { "n_features_in" },
                      !.n_features_in = pool[X[1]].cols,
                      !.training_data = X,
                      !.n_features_target =
                         IF n_features_target = 0 THEN pool[X[1]].cols ELSE @ ]

\* Lines 240-248: the attributes written before the feature-count test
fit_prologue(X) ==
  [ Attributes EXCEPT !.attrs = @ \cup { "n_features_in" },
                      !.n_features_in = pool[X[1]].cols,
                      !.training_data = X,
                      !.n_features_target =
                         IF n_features_target = 0 THEN pool[X[1]].cols ELSE @ ]

Reverse(s) == [ k \in 1..Len(s) |-> s[Len(s) + 1 - k] ]

\* the final alignment collected in the opposite order
final_alignment_reversed(X, final_template, reduction, co, ovf) ==
  procrustes_each(Mats(Reverse(X)), 1, final_template, "source", reduction, co, ovf)

\* Lines 296-302: one _procrustes per input dataset against the final template
final_alignment(X, final_template, reduction, co, ovf) ==
  procrustes_each(Mats(X), 1, final_template, "source", reduction, co, ovf)

\* What a fit call past the length test did: the attributes after it, the
\* caller's arrays centred in place, the exception, and the step counts.
fit_result(a, centres, err, builds, built, passes, nproc) ==
  [ a |-> a, centres |-> centres, err |-> err, builds |-> builds,
    built |-> built, passes |-> passes, nproc |-> nproc, working |-> <<>> ]

\* Lines 305-310: the attributes assigned when the final loop has completed
fit_outputs(a, passes, final_template, fin) ==
  [ a EXCEPT
      !.attrs = @ \cup OutputAttrs,
      !.n_iterations = passes,
      !.transformations = [ k \in 1..Len(fin.results) |-> fin.results[k].R ],
      !.template = final_template,
      !.aligned_data = [ k \in 1..Len(fin.results) |-> fin.results[k].new_source ],
      !.disparity = [ k \in 1..Len(fin.results) |-> fin.results[k].disp ],
      !.scaling_factors = [ k \in 1..Len(fin.results) |-> fin.results[k].scale ] ]

\* the template stored before the final loop, the rest after it
fit_aligned_template_first(a, b, loop, final_template, fin) ==
  [ fit_result(IF fin.err = "none"
               THEN fit_outputs(a, loop.passes, final_template, fin)
               ELSE [ a EXCEPT !.attrs = @ \cup { "template" },
                               !.template = final_template ],
               b.centres \cup loop.centres \cup fin.centres, fin.err,
               b.builds, b.tmpl, loop.passes, b.nproc + loop.nproc + fin.nproc)
    EXCEPT !.working = loop.working ]

\* fit from line 303 on: fin is the outcome of the final loop
fit_aligned(a, b, loop, final_template, fin) ==
  [ fit_result(IF fin.err = "none"
               THEN fit_outputs(a, loop.passes, final_template, fin) ELSE a,
               b.centres \cup loop.centres \cup fin.centres, fin.err,
               b.builds, b.tmpl, loop.passes, b.nproc + loop.nproc + fin.nproc)
    EXCEPT !.working = loop.working ]

\* fit from line 296 on
fit_final(X, num, a, b, loop, final_template) ==
  fit_aligned(a, b, loop, final_template,
              final_alignment(X, final_template,
                              a.n_features_target < a.n_features_in,
                              a.center_only,
                              a.center_only /\ num.ovf[1] = "final"))

\* fit from line 289 on: loop is the outcome of the refinement loop
fit_refined(X, num, a, b, loop) ==
  IF loop.err # "none"
  THEN fit_result(a, b.centres \cup loop.centres, loop.err, b.builds, b.tmpl,
                  loop.passes, b.nproc + loop.nproc)
  ELSE fit_final(X, num, a, b, loop,
                 IF a.n_features_target < a.n_features_in
                 THEN reduce_dimensionality(loop.tmpl, a.n_features_target)
                 ELSE loop.tmpl)

\* fit from line 262 on: b is the outcome of building the initial template
fit_built(X, num, a, b) ==
  fit_refined(X, num, [ a EXCEPT !.center_only = b.co ], b,
              refine(1, a.n_iterations, Mats(X), b.tmpl, b.co, num, calls + 1))

\* The second build (lines 258-260), after b1 gave the sentinel
second_build(b1, b2) ==
  [ tmpl |-> b2.tmpl, co |-> FALSE, builds |-> 2,
    centres |-> b1.centres \cup b2.centres, nproc |-> b1.nproc + b2.nproc ]

\* the second build made whatever the first build returned
fallback_unguarded(X, b1) ==
  second_build(b1, create_initial_template(X, FALSE, FALSE, calls + 1))

\* Lines 257-260: a 1-D first template sets center_only = False and builds again
fallback(X, b1) ==
  IF b1.tmpl.ndim = 1
  THEN second_build(b1, create_initial_template(X, FALSE, FALSE, calls + 1))
  ELSE [ tmpl |-> b1.tmpl, co |-> center_only, builds |-> 1,
         centres |-> b1.centres, nproc |-> b1.nproc ]

\* fit(X) past the length test (lines 240-311), with the numerical outcomes num
fit_run(X, num) ==
  IF ~same_features(X)
  THEN fit_result(fit_prologue(X), {}, "InconsistentShape", 0, NoMat, 0, 0)
  ELSE fit_built(X, num, fit_prologue(X),
                 fallback(X, create_initial_template(
                               X, center_only,
                               center_only /\ num.ovf[1] = "init", calls + 1)))

\* the outputs assigned on the class, where every instance sees them
Store_on_class(a) ==
  /\ attrs' = a.attrs
  /\ n_iterations' = a.n_iterations
  /\ center_only' = a.center_only
  /\ n_features_target' = a.n_features_target
  /\ n_features_in' = a.n_features_in
  /\ training_data' = a.training_data
  /\ transformations' = a.transformations
  /\ template' = a.template
  /\ aligned_data' = a.aligned_data
  /\ disparity' = a.disparity
  /\ scaling_factors' = a.scaling_factors
  /\ scaling' = scaling
  /\ convergence_threshold' = convergence_threshold
  /\ peer' = [ peer EXCEPT !.a.template = a.template,
                           !.a.transformations = a.transformations ]

\* Assign the attribute record a to the instance (self.<name> = ...); no
\* other instance is written
Store(a) ==
  /\ attrs' = a.attrs
  /\ n_iterations' = a.n_iterations
  /\ center_only' = a.center_only
  /\ n_features_target' = a.n_features_target
  /\ n_features_in' = a.n_features_in
  /\ training_data' = a.training_data
  /\ transformations' = a.transformations
  /\ template' = a.template
  /\ aligned_data' = a.aligned_data
  /\ disparity' = a.disparity
  /\ scaling_factors' = a.scaling_factors
  /\ scaling' = scaling
  /\ convergence_threshold' = convergence_threshold
  /\ peer' = peer

\* fit(X): X is a list, so the type test of line 234 passes.
fit(X, num) ==
  /\ calls < MaxFits
  /\ calls' = calls + 1
  /\ UNCHANGED << pool, cfg, driver >>
  /\ IF too_few(X)
     THEN /\ ret' = [ Outcome("fit", X, "InsufficientData", <<>>, 0, 0, 0)
                      EXCEPT !.call = calls + 1 ]
          /\ UNCHANGED << centred, engine, last_ok, peer, driver >>
     ELSE \E r \in { fit_run(X, num) } :
              /\ Store(r.a)
              /\ centred' = centred \cup r.centres
              /\ last_ok' = IF r.err = "none" THEN calls + 1 ELSE last_ok
              /\ ret' = [ Outcome("fit", X, r.err, <<>>, r.builds, r.passes, r.nproc)
                          EXCEPT !.call = calls + 1, !.built = r.built,
                                 !.working = r.working,
                                 !.conv = IF r.builds > 0 THEN num.conv ELSE 0,
                                 !.ovf = IF r.builds > 0 THEN num.ovf
                                         ELSE <<"none", 0>> ]

\* ------------------------------------------------------------- accessors
NotFittedError == "NotFitted"

\* get_transformations: the hasattr test of line 407
get_transformations_result ==
  IF "transformations" \notin attrs
  THEN [ err |-> NotFittedError, val |-> <<>> ]
  ELSE [ err |-> "none", val |-> transformations ]

\* get_template without the hasattr test
get_template_unguarded == [ err |-> "none", val |-> <<template>> ]

\* get_template: the hasattr test of line 439
get_template_result ==
  IF "template" \notin attrs
  THEN [ err |-> NotFittedError, val |-> <<>> ]
  ELSE [ err |-> "none", val |-> <<template>> ]

\* the loop of transform multiplying the datasets as they are given
RECURSIVE transform_each_raw(_, _, _)
transform_each_raw(X, Ts, k) ==
  IF k > Len(X) \/ k > Len(Ts)
  THEN [ err |-> "none", centres |-> {}, out |-> <<>> ]
  ELSE
    LET x == DataMat(X[k])
        T == Ts[k]
        transformed == Fresh(x.rows, T.cols, FALSE, <<"mul", x.val, T.val>>)
    IN  IF x.cols # T.rows
        THEN [ err |-> "ValueError", centres |-> {}, out |-> <<>> ]
        ELSE LET rest == transform_each_raw(X, Ts, k + 1)
             IN  [ err |-> rest.err, centres |-> rest.centres,
                   out |-> IF rest.err = "none" THEN <<transformed>> \o rest.out
                           ELSE <<>> ]

\* The loop of transform (lines 370-376) from position k on: normalise x in
\* place, multiply by T; the first exception ends the call.
RECURSIVE transform_each(_, _, _)
transform_each(X, Ts, k) ==
  IF k > Len(X) \/ k > Len(Ts)
  THEN [ err |-> "none", centres |-> {}, out |-> <<>> ]
  ELSE
    LET x == normalize_data(DataMat(X[k]), center_only)
        T == Ts[k]
        c == IF x.centres THEN { X[k] } ELSE {}
        transformed == Fresh(x.out.rows, T.cols, FALSE, <<"mul", x.out.val, T.val>>)
    IN  IF x.err # "none"
        THEN [ err |-> x.err, centres |-> c, out |-> <<>> ]
        ELSE IF x.out.cols # T.rows
        THEN [ err |-> "ValueError", centres |-> c, out |-> <<>> ]
        ELSE LET rest == transform_each(X, Ts, k + 1)
             IN  [ err |-> rest.err, centres |-> c \cup rest.centres,
                   out |-> IF rest.err = "none" THEN <<transformed>> \o rest.out
                           ELSE <<>> ]

\* transform pairing datasets and transformations without the length test
transform_result_unchecked(X) ==
  LET g == get_transformations_result
  IN  IF g.err # "none"
      THEN [ err |-> g.err, centres |-> {}, out |-> <<>> ]
      ELSE transform_each(X, g.val, 1)

\* transform(X): get_transformations, the length test, then the loop
transform_result(X) ==
  LET g == get_transformations_result
  IN  IF g.err # "none"
      THEN [ err |-> g.err, centres |-> {}, out |-> <<>> ]
      ELSE IF Len(X) # Len(g.val)
      THEN [ err |-> "MismatchedCount", centres |-> {}, out |-> <<>> ]
      ELSE transform_each(X, g.val, 1)

transform(X) ==
  \E r \in { transform_result(X) } :
      /\ centred' = centred \cup r.centres
      /\ ret' = Outcome("transform", X, r.err, r.out, 0, 0, 0)
      /\ UNCHANGED << pool, engine, cfg, calls, last_ok, peer, driver >>

get_transformations ==
  /\ ret' = Outcome("get_transformations", <<>>, get_transformations_result.err,
                    get_transformations_result.val, 0, 0, 0)
  /\ UNCHANGED << pool, centred, engine, cfg, calls, last_ok, peer, driver >>

get_template ==
  /\ ret' = Outcome("get_template", <<>>, get_template_result.err,
                    get_template_result.val, 0, 0, 0)
  /\ UNCHANGED << pool, centred, engine, cfg, calls, last_ok, peer, driver >>

\* The stored template after X -= np.mean(X, axis=0) (line 67) has moved
\* its elements by the rounding residues of its column means
Recentred(M) == [ M EXCEPT !.val = <<"recentred", @[2], @[3], @[4]>> ]

\* transform_new_dataset(X): self.template is read first (AttributeError on
\* an instance without it); the test of line 424 raises when the shapes are
\* equal; otherwise one _procrustes(X, self.template).  touched: the call
\* reached line 124, which centres self.template in place.
transform_new_dataset_result(id, ovf) ==
  LET X == DataMat(id)
      r == procrustes(X, template, FALSE, scaling, center_only, center_only /\ ovf)
      c == IF r.csrc THEN { id } ELSE {}
  IN  IF "template" \notin attrs
      THEN [ err |-> "AttributeError", centres |-> {}, touched |-> FALSE,
             out |-> <<>> ]
      ELSE IF ~(<<X.rows, X.cols>> # <<template.rows, template.cols>>)
      THEN [ err |-> "ShapeMismatch", centres |-> {}, touched |-> FALSE,
             out |-> <<>> ]
      ELSE IF ~Unpacks(r)
      THEN [ err |-> IF r.none THEN "TypeError" ELSE r.err, centres |-> c,
             touched |-> r.ctgt, out |-> <<>> ]
      ELSE [ err |-> "none", centres |-> c, touched |-> r.ctgt,
             out |-> << r.new_source, r.R >> ]

\* moved: the in-place centring of the template changed some element
transform_new_dataset(id, ovf, moved) ==
  \E r \in { transform_new_dataset_result(id, ovf) } :
      /\ centred' = centred \cup r.centres
      /\ template' = IF r.touched /\ moved THEN Recentred(template) ELSE template
      /\ ret' = Outcome("transform_new_dataset", <<id>>, r.err, r.out, 0, 0, 0)
      /\ UNCHANGED << pool, attrs, n_iterations, scaling, center_only,
                      convergence_threshold, n_features_target, n_features_in,
                      training_data, transformations, aligned_data, disparity,
                      scaling_factors, cfg, calls, last_ok, peer, driver >>

\* _run_isc on a list of arrays: np.shape and the mean over the other
\* subjects need arrays of one shape
run_isc_ok(shapes) ==
  /\ Len(shapes) > 0
  /\ \A k \in 1..Len(shapes) : shapes[k] = shapes[1]

\* evaluate_isc: _run_isc(self.training_data), then _run_isc(self.aligned_data)
evaluate_isc_result ==
  LET tshapes == [ k \in 1..Len(training_data) |->
                   << pool[training_data[k]].rows, pool[training_data[k]].cols >> ]
      ashapes == [ k \in 1..Len(aligned_data) |->
                   << aligned_data[k].rows, aligned_data[k].cols >> ]
  IN  IF training_data = None
      THEN [ err |-> "TypeError", val |-> <<>> ]
      ELSE IF ~run_isc_ok(tshapes)
      THEN [ err |-> "ValueError", val |-> <<>> ]
      ELSE IF "aligned_data" \notin attrs
      THEN [ err |-> "AttributeError", val |-> <<>> ]
      ELSE IF ~run_isc_ok(ashapes)
      THEN [ err |-> "ValueError", val |-> <<>> ]
      ELSE [ err |-> "none",
             val |-> << [ k \in 1..Len(training_data) |-> <<"isc", <<"data", training_data[k]>> >> ],
                        [ k \in 1..Len(aligned_data) |-> <<"isc", aligned_data[k].val>> ] >> ]

evaluate_isc ==
  /\ ret' = Outcome("evaluate_isc", <<>>, evaluate_isc_result.err,
                    evaluate_isc_result.val, 0, 0, 0)
  /\ UNCHANGED << pool, centred, engine, cfg, calls, last_ok, peer, driver >>

\* ------------------------------------------------------------- machine
KindOf(k) == CHOOSE i \in 1..Len(Kinds) : Kinds[i] = k

\* __init__ (lines 44-51) and the caller's arrays.  The arrays are
\* interchangeable, so they are listed in the order of Kinds.
InitEngine ==
  /\ pool \in { f \in [ Ids -> { Kinds[i] : i \in 1..Len(Kinds) } ] :
                  \A i, j \in Ids : i < j => KindOf(f[i]) <= KindOf(f[j]) }
  /\ centred = {}
  /\ cfg \in [ n_iterations : 1..MaxIter, scaling : BOOLEAN,
               center_only : BOOLEAN, n_features_target : Targets ]
  /\ attrs = {}
  /\ n_iterations = cfg.n_iterations
  /\ scaling = cfg.scaling
  /\ center_only = cfg.center_only
  /\ convergence_threshold \in Thresholds
  /\ n_features_target = cfg.n_features_target
  /\ n_features_in = 0
  /\ training_data = None
  /\ transformations = <<>>
  /\ template = NoMat
  /\ aligned_data = <<>>
  /\ disparity = <<>>
  /\ scaling_factors = <<>>
  /\ calls = 0
  /\ last_ok = 0
  /\ ret = Outcome("init", <<>>, "none", <<>>, 0, 0, 0)

\* No driver function has been called
Idle ==
  [ fn |-> "none", pc |-> "idle", workers |-> "none", ntrain |-> 0, ntest |-> 0,
    fitted |-> <<>>, raised |-> "none" ]

\* One engine instance; there is no second one
Init == InitEngine /\ peer = None /\ driver = Idle

Next ==
  \/ \E X \in Lists, num \in Numerics : fit(X, num)
  \/ \E X \in Lists : transform(X)
  \/ get_transformations
  \/ get_template
  \/ \E id \in Ids, ovf, moved \in BOOLEAN : transform_new_dataset(id, ovf, moved)
  \/ evaluate_isc

Spec == Init /\ [][Next]_vars

\* self._normalize_data(X) on the caller's array id
normalize(id) ==
  \E r \in { normalize_data(DataMat(id), center_only) } :
      /\ centred' = IF r.centres THEN centred \cup { id } ELSE centred
      /\ ret' = Outcome("normalize", <<id>>, r.err,
                        IF r.err = "none" THEN << r.out >> ELSE <<>>, 0, 0, 0)
      /\ UNCHANGED << pool, engine, cfg, calls, last_ok, peer, driver >>

NextNormalize == \E id \in Ids : normalize(id)

\* _normalize_data applied to every kind of array under both settings of
\* center_only
SpecNormalize == Init /\ [][NextNormalize]_vars

\* ------------------------------------------------------------- arithmetic
\* _normalize_data and _disparity on matrices with numbers in them.  A value
\* [num, densq] stands for the matrix num / sqrt(densq); the entries are
\* multiples of the row count, so that the column means are integers.
MRows == 2
MCols == 2

Entries == { 0, MRows, 2 * MRows }

Matrices == [ 1..MRows -> [ 1..MCols -> Entries ] ]

SmallMatrices == [ 1..MRows -> [ 1..MCols -> { 0, 1 } ] ]

RECURSIVE SumTo(_, _)
SumTo(f, n) == IF n = 0 THEN 0 ELSE f[n] + SumTo(f, n - 1)

\* the column total in place of the column mean
column_mean_as_sum(M, c) == SumTo([ r \in 1..Len(M) |-> M[r][c] ], Len(M))

\* np.mean(X, axis=0)[c]
column_mean(M, c) == SumTo([ r \in 1..Len(M) |-> M[r][c] ], Len(M)) \div Len(M)

\* X -= np.mean(X, axis=0)
centred_matrix(M) ==
  [ r \in 1..Len(M) |-> [ c \in 1..Len(M[r]) |-> M[r][c] - column_mean(M, c) ] ]

\* np.linalg.norm(X) squared
norm_squared(M) ==
  SumTo([ r \in 1..Len(M) |->
            SumTo([ c \in 1..Len(M[r]) |-> M[r][c] * M[r][c] ], Len(M[r])) ],
        Len(M))

\* _normalize_data on the value V under center_only = co
normalize_value(V, co) ==
  LET X == centred_matrix(V.num)
      normsq == norm_squared(X)
  IN  IF normsq = 0
      THEN [ err |-> "DegenerateInput", out |-> [ num |-> X, densq |-> V.densq ] ]
      ELSE [ err |-> "none",
             out |-> IF co THEN [ num |-> X, densq |-> V.densq ]
                     ELSE [ num |-> X, densq |-> normsq ] ]

\* the differences summed without being squared
disparity_value_unsquared(M1, M2) ==
  SumTo([ r \in 1..Len(M1) |->
            SumTo([ c \in 1..Len(M1[r]) |-> M1[r][c] - M2[r][c] ], Len(M1[r])) ],
        Len(M1))

\* _disparity: np.sum(np.square(M1 - M2))
disparity_value(M1, M2) ==
  SumTo([ r \in 1..Len(M1) |->
            SumTo([ c \in 1..Len(M1[r]) |->
                      (M1[r][c] - M2[r][c]) * (M1[r][c] - M2[r][c]) ],
                  Len(M1[r])) ],
        Len(M1))

\* self._normalize_data(self._normalize_data(X)); val holds the result of
\* the inner call and of the outer one
normalize_twice(M) ==
  \E once \in { normalize_value([ num |-> M, densq |-> 1 ], center_only) } :
    \E twice \in { normalize_value(once.out, center_only) } :
      /\ ret' = Outcome("normalize_twice", M,
                        IF once.err # "none" THEN once.err ELSE twice.err,
                        IF once.err # "none" THEN <<>>
                        ELSE << once.out, twice.out >>, 0, 0, 0)
      /\ UNCHANGED << pool, centred, engine, cfg, calls, last_ok, peer, driver >>

\* self._disparity(M1, M2)
disparity_call(M1, M2) ==
  /\ ret' = Outcome("disparity", << M1, M2 >>, "none",
                    << disparity_value(M1, M2) >>, 0, 0, 0)
  /\ UNCHANGED << pool, centred, engine, cfg, calls, last_ok, peer, driver >>

\* One call on a new engine
NextArithmetic ==
  /\ ret.op = "init"
  /\ \/ \E M \in Matrices : normalize_twice(M)
     \/ \E M1, M2 \in SmallMatrices : disparity_call(M1, M2)

\* The default arguments but for center_only, and regular arrays of one shape
OneConfiguration ==
  /\ cfg.n_iterations = 1 /\ cfg.scaling /\ cfg.n_features_target = 0
  /\ convergence_threshold = 1
  /\ \A id \in Ids : pool[id] = Kinds[1]

\* One engine for each value of center_only
InitArithmetic == Init /\ OneConfiguration

SpecArithmetic == InitArithmetic /\ [][NextArithmetic]_vars

\* ------------------------------------------------------------- two engines
\* An engine instance together with the arrays its caller gives it
World ==
  [ pool |-> pool, centred |-> centred, a |-> Attributes, scaling |-> scaling,
    convergence_threshold |-> convergence_threshold, cfg |-> cfg,
    calls |-> calls, last_ok |-> last_ok, ret |-> ret ]

\* The caller turns to the other engine: the next operations are its
switch ==
  /\ peer' = World
  /\ pool' = peer.pool
  /\ centred' = peer.centred
  /\ attrs' = peer.a.attrs
  /\ n_iterations' = peer.a.n_iterations
  /\ center_only' = peer.a.center_only
  /\ n_features_target' = peer.a.n_features_target
  /\ n_features_in' = peer.a.n_features_in
  /\ training_data' = peer.a.training_data
  /\ transformations' = peer.a.transformations
  /\ template' = peer.a.template
  /\ aligned_data' = peer.a.aligned_data
  /\ disparity' = peer.a.disparity
  /\ scaling_factors' = peer.a.scaling_factors
  /\ scaling' = peer.scaling
  /\ convergence_threshold' = peer.convergence_threshold
  /\ cfg' = peer.cfg
  /\ calls' = peer.calls
  /\ last_ok' = peer.last_ok
  /\ ret' = peer.ret
  /\ driver' = driver

\* Two engines constructed alike, each with arrays of its own
InitTwo == InitEngine /\ OneConfiguration /\ driver = Idle /\ peer = World

\* Every interleaving of the fit and transform calls on the two engines
NextTwo ==
  \/ \E X \in Lists, num \in Numerics : fit(X, num)
  \/ \E X \in Lists : transform(X)
  \/ switch

SpecTwo == InitTwo /\ [][NextTwo]_vars

\* ------------------------------------------------------------- v2 driver
\* drive_hyperalignment_full and drive_hyperalignment_split, each step one
\* try block of the function.  workers is the multiprocessing pool, fitted
\* the lists that fit was called with on the engine `ha`, raised the block
\* an exception left the function from.  Whether a file loads, a fit or the
\* pool's starmap succeeds is an input of the step.
MaxSubjects == 2

Everything == << pool, centred, engine, cfg, calls, last_ok, ret, peer >>

\* The connectomes loaded for n subjects
Loaded(name, n) == [ k \in 1..n |-> << name, k >> ]

\* except-clause of the first two blocks: pool.close(); return
closed_early_leaking(d) == [ d EXCEPT !.pc = "returned" ]

closed_early(d) == [ d EXCEPT !.workers = "closed", !.pc = "returned" ]

\* finally-clause of the last block: pool.close(); pool.join()
finished(d) == [ d EXCEPT !.workers = "joined", !.pc = "returned" ]

\* ha.fit(X) on the engine of the run: it raises for fewer than 2 datasets
\* (line 237 of hyperalignment.py) and otherwise as the data have it
ha_fit(d, X, ok) ==
  [ d EXCEPT !.fitted = Append(@, X),
             !.raised = IF too_few(X) \/ ~ok THEN "fit" ELSE "none" ]

\* Lines 168-173 / 223-228: the prints and mp.Pool(pool_num), outside any try
drive_start(fn, ntrain, ntest, ok) ==
  /\ driver.pc = "idle"
  /\ driver' = IF ok
                THEN [ driver EXCEPT !.fn = fn, !.ntrain = ntrain, !.ntest = ntest,
                                     !.workers = "open", !.pc = "load_train" ]
                ELSE [ driver EXCEPT !.fn = fn, !.ntrain = ntrain, !.ntest = ntest,
                                     !.raised = "setup", !.pc = "raised" ]
  /\ UNCHANGED Everything

\* Lines 176-183 / 231-238: load the training connectomes
drive_load_train(ok) ==
  /\ driver.pc = "load_train"
  /\ driver' = IF ok THEN [ driver EXCEPT !.pc = "train" ]
                ELSE closed_early(driver)
  /\ UNCHANGED Everything

\* Lines 186-194 / 241-249: ha = Hyperalignment(verbose=True); ha.fit(train_cnx)
drive_train(ok) ==
  /\ driver.pc = "train"
  /\ \E d \in { ha_fit(driver, Loaded("train", driver.ntrain), ok) } :
       driver' = IF d.raised = "none" THEN [ d EXCEPT !.pc = "load_test" ]
                 ELSE closed_early([ d EXCEPT !.raised = "none" ])
  /\ UNCHANGED Everything

\* Lines 197-199 / 252-255: load the test connectomes (both halves for split)
drive_load_test(ok) ==
  /\ driver.pc = "load_test"
  /\ driver' = IF ok THEN [ driver EXCEPT !.pc = "fit_test" ]
                ELSE finished(driver)
  /\ UNCHANGED Everything

\* Line 202 / 258: ha.fit(test_cnx).get_transformations() on the same ha
drive_fit_test(ok) ==
  /\ driver.pc = "fit_test"
  /\ \E d \in { ha_fit(driver, Loaded(IF driver.fn = "split" THEN "test0" ELSE "test",
                                       driver.ntest), ok) } :
       driver' = IF d.raised # "none" THEN finished([ d EXCEPT !.raised = "none" ])
                 ELSE IF d.fn = "split" THEN [ d EXCEPT !.pc = "fit_test1" ]
                 ELSE [ d EXCEPT !.pc = "apply" ]
  /\ UNCHANGED Everything

\* Line 259: ha.fit(test_cnx1).get_transformations(), split only
drive_fit_test1(ok) ==
  /\ driver.pc = "fit_test1"
  /\ \E d \in { ha_fit(driver, Loaded("test1", driver.ntest), ok) } :
       driver' = IF d.raised # "none" THEN finished([ d EXCEPT !.raised = "none" ])
                 ELSE [ d EXCEPT !.pc = "apply" ]
  /\ UNCHANGED Everything

\* Lines 205-218 / 262-275: pool.starmap(apply_mappers, ...), whose workers
\* catch their own exceptions (lines 132-140); then the finally-clause
drive_apply(ok) ==
  /\ driver.pc = "apply"
  /\ driver' = finished(driver)
  /\ UNCHANGED Everything

NextDriver ==
  \/ \E fn \in { "full", "split" }, ntrain, ntest \in 0..MaxSubjects, ok \in BOOLEAN :
        drive_start(fn, ntrain, ntest, ok)
  \/ \E ok \in BOOLEAN : drive_load_train(ok)
  \/ \E ok \in BOOLEAN : drive_train(ok)
  \/ \E ok \in BOOLEAN : drive_load_test(ok)
  \/ \E ok \in BOOLEAN : drive_fit_test(ok)
  \/ \E ok \in BOOLEAN : drive_fit_test1(ok)
  \/ \E ok \in BOOLEAN : drive_apply(ok)

InitDriver == Init /\ OneConfiguration /\ cfg.center_only

SpecDriver == InitDriver /\ [][NextDriver]_vars

\* ------------------------------------------------------------- properties
FitStep == calls' # calls

Fitted == last_ok > 0

\* C1: on an engine on which no fit call has returned (failed fit calls
\* included), transform, get_transformations and get_template fail with the
\* not-fitted error and return no data.
C1_UnfitAccessorsFail ==
  (~Fitted /\ ret.op \in { "transform", "get_transformations", "get_template" })
    => (ret.err = NotFittedError /\ ret.val = <<>>)

C1_Witness ==
  /\ ~Fitted /\ calls > 0
  /\ ret.op = "get_template" /\ ret.err = NotFittedError

\* C2: once a fit call has returned, the five output attributes stay on the
\* instance through every later call (failing fit calls included), so that
\* get_transformations, get_template and transform never raise the
\* not-fitted error again.
C2_FittedForever ==
  Fitted =>
    /\ OutputAttrs \subseteq attrs
    /\ ret.op \in { "transform", "get_transformations", "get_template" }
         => ret.err # NotFittedError

C2_Witness ==
  /\ Fitted /\ last_ok < calls
  /\ ret.op = "get_transformations" /\ ret.err = "none"

\* C3: a fit call with fewer than 2 datasets raises the insufficient-data
\* error and leaves every attribute of the instance (and the caller's
\* arrays) as it was.
C3_TooFewLeavesEngine ==
  [][ (FitStep /\ Len(ret'.X) < 2)
        => (ret'.err = "InsufficientData" /\ UNCHANGED << engine, centred >>) ]_vars

C3_Witness ==
  /\ ret.op = "fit" /\ Len(ret.X) = 1 /\ ret.err = "InsufficientData"
  /\ Fitted

DifferingFeatures(X) == \E i, j \in 1..Len(X) : pool[X[i]].cols # pool[X[j]].cols

\* C4: a fit call with 2 or more datasets whose column counts differ raises
\* the inconsistent-shape error before any template is built and before any
\* _procrustes call, and stores none of the output attributes.
C4_InconsistentShapeFirst ==
  [][ (FitStep /\ Len(ret'.X) >= 2 /\ DifferingFeatures(ret'.X))
        => /\ ret'.err = "InconsistentShape"
           /\ ret'.builds = 0 /\ ret'.passes = 0 /\ ret'.nproc = 0
           /\ UNCHANGED << outputs, centred >>
           /\ attrs' \cap OutputAttrs = attrs \cap OutputAttrs ]_vars

C4_Witness ==
  /\ ret.op = "fit" /\ Len(ret.X) >= 2 /\ DifferingFeatures(ret.X)
  /\ ret.err = "InconsistentShape"

\* The value of the normalised caller's array id under center_only = co
NormOf(id, co) == <<"norm", <<"data", id>>, ~co>>

\* The value of the stored template as _procrustes normalises it
NormTemplate(co) == <<"norm", template.val, ~co>>

\* C5: after a fit call on N datasets has returned, transformations,
\* aligned_data, disparity and scaling_factors have N entries each, and entry
\* i is the result of _procrustes on input dataset i against the stored
\* template.
C5_ParallelLists ==
  (ret.op = "fit" /\ ret.err = "none") =>
    LET N == Len(ret.X)
    IN  /\ Len(transformations) = N /\ Len(aligned_data) = N
        /\ Len(disparity) = N /\ Len(scaling_factors) = N
        /\ \A i \in 1..N :
             LET Rval == <<"R", NormOf(ret.X[i], center_only),
                           NormTemplate(center_only), scaling>>
                 y == <<"mul", NormOf(ret.X[i], center_only), Rval>>
             IN  /\ transformations[i].val = Rval
                 /\ aligned_data[i].val = y
                 /\ disparity[i] = <<"disp", NormTemplate(center_only), y>>
                 /\ scaling_factors[i] = IF scaling THEN <<"scale", Rval>>
                                         ELSE <<"one">>

C5_Witness ==
  /\ ret.op = "fit" /\ ret.err = "none"
  /\ ret.X = <<2, 1>> /\ Len(transformations) = 2

\* C6: transform on an instance that has transformations: with a different
\* number of datasets it raises the mismatched-count error without centring
\* any dataset; with the same number it never raises that error, it returns
\* whenever every dataset can be normalised and multiplied, and what it
\* returns has the same length, entry i being normalize(X[i]) @
\* transformations[i]; the stored transformations are left as they were.
C6_TransformContract ==
  [][ (ret'.op = "transform" /\ "transformations" \in attrs) =>
        LET X == ret'.X
        IN  /\ transformations' = transformations
            /\ IF Len(X) # Len(transformations)
               THEN /\ ret'.err = "MismatchedCount" /\ ret'.val = <<>>
                    /\ centred' = centred
               ELSE /\ ret'.err # "MismatchedCount"
                    /\ (\A i \in 1..Len(X) :
                          /\ ~pool[X[i]].degen
                          /\ pool[X[i]].cols = transformations[i].rows)
                         => ret'.err = "none"
                    /\ ret'.err = "none" =>
                         /\ Len(ret'.val) = Len(X)
                         /\ \A i \in 1..Len(X) :
                              ret'.val[i].val =
                                <<"mul", NormOf(X[i], center_only),
                                  transformations[i].val>> ]_vars

C6_Witness ==
  /\ ret.op = "transform" /\ ret.err = "MismatchedCount"
  /\ Len(ret.X) = 1 /\ Len(transformations) = 2

C6_WitnessReturns ==
  /\ ret.op = "transform" /\ ret.err = "none" /\ Len(ret.val) = 2

\* C7: after fit has returned on X, with no fit call since, transform(X)
\* returns for every i the matrix aligned_data[i] that fit stored, also when
\* the fallback of that fit changed center_only.
C7_TransformReproducesAligned ==
  (ret.op = "transform" /\ Fitted /\ last_ok = calls /\ ret.X = training_data)
    => (ret.err = "none" /\ ret.val = aligned_data)

C7_Witness ==
  /\ ret.op = "transform" /\ Fitted /\ last_ok = calls
  /\ ret.X = training_data /\ ret.val = aligned_data
  /\ cfg.center_only /\ ~center_only

\* C8: after a fit call with 0 < n_features_target < n_features_in has
\* returned, the template has n_features_target columns, every
\* transformation is n_features_in x n_features_target and every aligned
\* dataset has n_features_target columns.
C8_ReducedShape ==
  (ret.op = "fit" /\ ret.err = "none"
     /\ 0 < n_features_target /\ n_features_target < n_features_in) =>
    /\ template.cols = n_features_target
    /\ \A i \in 1..Len(transformations) :
         /\ transformations[i].rows = n_features_in
         /\ transformations[i].cols = n_features_target
         /\ aligned_data[i].cols = n_features_target

\* C9: a fit call that reaches the refinement loop starts at least 1 and at
\* most max_iterations (the n_iterations given at construction) passes, and
\* when it returns the recorded n_iterations is the number of passes started.
C9_BoundedPasses ==
  (ret.op = "fit" /\ ret.builds > 0) =>
    /\ ret.passes \in 1..cfg.n_iterations
    /\ ret.err = "none" => n_iterations = ret.passes

C9_Witness ==
  /\ ret.op = "fit" /\ ret.err = "none" /\ ret.call = 2
  /\ ret.passes = 2 /\ n_iterations = 2

\* C10: a fit call that returns ran its refinement loop up to the first pass
\* whose mean disparity is below 0.1, and exactly max_iterations (the
\* n_iterations given at construction) passes if there is no such pass.
C10_EarlyStop ==
  (ret.op = "fit" /\ ret.err = "none") =>
    ret.passes = IF ret.conv \in 1..cfg.n_iterations THEN ret.conv
                 ELSE cfg.n_iterations

SameShapeAsTemplate(id) ==
  <<pool[id].rows, pool[id].cols>> = <<template.rows, template.cols>>

\* C13: transform_new_dataset(X) on an engine with a stored template raises
\* the shape-mismatch error if the shape of X differs from the template's,
\* and with equal shapes does not raise it and, when it returns, returns
\* the pair (aligned, R) of one _procrustes(X, template).
C13_NewDatasetShapeCheck ==
  (ret.op = "transform_new_dataset" /\ "template" \in attrs) =>
    IF SameShapeAsTemplate(ret.X[1])
    THEN /\ ret.err # "ShapeMismatch"
         /\ ret.err = "none" => Len(ret.val) = 2
    ELSE ret.err = "ShapeMismatch"

\* C14: on an engine on which no fit call has returned, every post-fit
\* accessor (transform_new_dataset and evaluate_isc included) fails with the
\* not-fitted error that get_template and get_transformations raise.
C14_EveryAccessorNotFitted ==
  (~Fitted /\ ret.op \in { "transform", "get_transformations", "get_template",
                            "transform_new_dataset", "evaluate_isc" })
    => ret.err = NotFittedError

\* C15: a fit call whose first initial-template build gave the 1-D sentinel
\* builds the initial template again with center_only = true in effect.
C15_FallbackCenterOnly ==
  (ret.op = "fit" /\ ret.builds = 2) => center_only

\* Some dataset of X has identical rows, or the row counts of X differ: no
\* build of the initial template from X can succeed
Unbuildable(X) ==
  \/ \E i \in 1..Len(X) : pool[X[i]].degen
  \/ \E i, j \in 1..Len(X) : pool[X[i]].rows # pool[X[j]].rows

\* C16: a fit call builds the initial template at most twice; a second
\* build happens only after a first one that failed (an unbuildable input,
\* or an overflow, which needs center_only), and always then; if the second
\* build is degenerate too the call raises and stores none of the output
\* attributes; and no other step is repeated: the _procrustes calls are at
\* most one per later dataset and build, two per dataset and pass, and one
\* per dataset for the final alignment.
C16_SingleRetry ==
  [][ FitStep =>
        LET X == ret'.X
            N == Len(X)
        IN  /\ ret'.builds \in 0..2
            /\ ret'.builds = 2 => (Unbuildable(X) \/ center_only)
            /\ (ret'.builds > 0 /\ Unbuildable(X)) => ret'.builds = 2
            /\ (ret'.builds = 2 /\ Unbuildable(X)) =>
                  /\ ret'.err # "none"
                  /\ UNCHANGED outputs
                  /\ attrs' \cap OutputAttrs = attrs \cap OutputAttrs
            /\ ret'.passes <= cfg.n_iterations
            /\ ret'.nproc <= ret'.builds * (N - 1) + ret'.passes * 2 * N + N ]_vars

C16_Witness ==
  /\ ret.op = "fit" /\ ret.builds = 2 /\ Unbuildable(ret.X)
  /\ ret.err # "none" /\ ~center_only /\ cfg.center_only
  /\ "template" \notin attrs

\* C17: _create_initial_template never propagates the failure of a
\* _procrustes step: a fit call that builds the initial template always goes
\* on to the refinement loop; the build returns the 1-D sentinel whenever a
\* step fails (a dataset with identical rows, differing row counts, an
\* overflow) and otherwise the averaged accumulator, a 2-D matrix with the
\* shape of dataset 0.
C17_BuildNeverRaises ==
  [][ (FitStep /\ ret'.builds > 0) =>
        LET X == ret'.X
            first == pool[X[1]]
            averaged == Fresh(first.rows, first.cols, FALSE,
                              <<"template", calls + 1, 0, FALSE>>)
        IN  /\ ret'.passes >= 1
            /\ ret'.built \in { Sentinel, averaged }
            /\ Unbuildable(X) => ret'.built = Sentinel
            /\ (ret'.builds = 1 \/ ~Unbuildable(X)) => ret'.built = averaged
            /\ (ret'.builds = 1 /\ center_only) => ret'.nproc >= Len(X) - 1 ]_vars

C17_Witness ==
  /\ ret.op = "fit" /\ ret.builds = 2 /\ ret.built = Sentinel
  /\ ret.passes = 1 /\ ret.err # "none"

DifferingShapes(X) ==
  \E i, j \in 1..Len(X) :
     <<pool[X[i]].rows, pool[X[i]].cols>> # <<pool[X[j]].rows, pool[X[j]].cols>>

\* C18: a fit call on 2 or more datasets whose shapes differ (in the
\* column count or only in the row count) raises at once: it makes no second
\* build of the initial template and leaves center_only as it was.
C18_ShapeMismatchFatal ==
  [][ (FitStep /\ Len(ret'.X) >= 2 /\ DifferingShapes(ret'.X)) =>
        /\ ret'.err # "none"
        /\ ret'.builds <= 1
        /\ center_only' = center_only ]_vars

\* The last refinement pass a fit step starts if nothing fails
LastPass == IF ret'.conv \in 1..n_iterations THEN ret'.conv ELSE n_iterations

\* A fit step in which a _procrustes call of a refinement pass or of the
\* final alignment returned None: the aligned source overflows there, the
\* data are not normalised (center_only), and that call is reached
OverflowHit ==
  /\ FitStep /\ ret'.builds > 0 /\ center_only'
  /\ \/ ret'.ovf[1] = "final"
     \/ ret'.ovf[1] = "pass" /\ ret'.ovf[2] <= LastPass

\* C19: a fit call in which _procrustes returns None during a refinement
\* pass or the final alignment raises and writes none of template,
\* transformations, aligned_data, disparity and scaling_factors; and the
\* lists a fit call stores hold a matrix (a value) at every position.
C19_OverflowFatal ==
  [][ /\ OverflowHit =>
            /\ ret'.err = "TypeError"
            /\ UNCHANGED outputs
            /\ attrs' \cap OutputAttrs = attrs \cap OutputAttrs
      /\ FitStep =>
            \A i \in 1..Len(transformations') :
               /\ transformations'[i].ndim = 2 /\ aligned_data'[i].ndim = 2
               /\ disparity'[i] # None /\ scaling_factors'[i] # None ]_vars

C19_Witness ==
  /\ ret.op = "fit" /\ ret.ovf[1] = "final" /\ center_only
  /\ ret.err = "TypeError" /\ ret.builds = 1
  /\ Fitted /\ Len(transformations) = 2

\* C20: _normalize_data on a 2-D matrix raises the degenerate-input error
\* exactly when the centred matrix has norm zero (all rows identical),
\* whatever center_only is; otherwise it returns a matrix of the same shape:
\* the centred matrix if center_only, the centred matrix divided by its
\* norm if not.
C20_Normalize ==
  ret.op = "normalize" =>
    LET id == ret.X[1]
    IN  IF pool[id].degen
        THEN ret.err = "DegenerateInput" /\ ret.val = <<>>
        ELSE /\ ret.err = "none"
             /\ ret.val = << Fresh(pool[id].rows, pool[id].cols, FALSE,
                                    <<"norm", <<"data", id>>, ~center_only>>) >>

C20_Witness ==
  /\ ret.op = "normalize" /\ pool[ret.X[1]].degen /\ center_only
  /\ ret.err = "DegenerateInput" /\ ret.X[1] \in centred

\* C21: with center_only = true, whenever _normalize_data succeeds on X,
\* _normalize_data applied to its result succeeds and returns the same
\* matrix.
C21_NormalizeIdempotent ==
  (ret.op = "normalize_twice" /\ center_only /\ Len(ret.val) > 0) =>
    /\ ret.err = "none"
    /\ ret.val[2] = ret.val[1]

C21_Witness ==
  /\ ret.op = "normalize_twice" /\ center_only /\ ret.err = "none"
  /\ ret.val[1].num # ret.X /\ ret.val[2] = ret.val[1]

\* C22: _disparity(A, B) on matrices of one shape is never negative and is
\* 0 exactly when A = B.
C22_Disparity ==
  ret.op = "disparity" =>
    /\ ret.val[1] >= 0
    /\ (ret.val[1] = 0) <=> (ret.X[1] = ret.X[2])

C22_Witness ==
  /\ ret.op = "disparity" /\ ret.X[1] # ret.X[2]
  /\ ret.val[1] = 2
  /\ ret.X[1][1][1] < ret.X[2][1][1] /\ ret.X[1][1][2] > ret.X[2][1][2]

\* C23: two engine instances with disjoint dataset arrays do not affect
\* each other: in every interleaving of their fit and transform calls, a
\* call on one engine leaves the other engine (its attributes, its arrays,
\* what its last call returned) as it was, so each engine goes through the
\* states it goes through alone.
C23_Confinement ==
  [][ \/ peer' = peer
      \/ peer' = World /\ World' = peer ]_vars

C23_Witness ==
  /\ Fitted /\ ret.op = "fit" /\ ret.err = "none" /\ calls = 2
  /\ peer.last_ok = 1 /\ peer.calls = 1 /\ peer.ret.op = "transform"
  /\ peer.a.center_only # center_only

\* The refinement passes of a returned fit that did not trigger the break
PassesAdopted == IF ret.conv = ret.passes THEN ret.passes - 1 ELSE ret.passes

\* C24: in a fit call that returns, the working set of the refinement
\* passes starts as the input arrays and is replaced by the newly aligned
\* set of exactly the passes that do not trigger the early stop; the stored
\* transformations and aligned_data are those of one final _procrustes per
\* original input array against the stored template, and no array aligned
\* by a pass is part of a stored transformation.
C24_WorkingSetAndFinal ==
  (ret.op = "fit" /\ ret.err = "none") =>
    /\ Len(ret.working) = Len(ret.X)
    /\ \A i \in 1..Len(ret.X) :
         /\ ret.working[i].val =
              IF PassesAdopted = 0 THEN <<"data", ret.X[i]>>
              ELSE <<"aligned", ret.call, PassesAdopted, i>>
         /\ transformations[i].val[1] = "R"
         /\ transformations[i].val[2][2] = <<"data", ret.X[i]>>
         /\ transformations[i].val[3][2] = template.val
         /\ aligned_data[i].val[2][2] = <<"data", ret.X[i]>>
         /\ aligned_data[i].val[3] = transformations[i].val
    /\ ret.nproc - (2 * ret.passes + 1) * Len(ret.X)
         \in (Len(ret.X) - 1) + (ret.builds - 1) .. ret.builds * (Len(ret.X) - 1)

C24_Witness ==
  /\ ret.op = "fit" /\ ret.err = "none" /\ ret.passes = 2 /\ ret.conv = 2
  /\ ret.working[1].val = <<"aligned", ret.call, 1, 1>>
  /\ transformations[2].val[2][2] = <<"data", ret.X[2]>>

\* C25: in a run of drive_hyperalignment_full or drive_hyperalignment_split,
\* fit is called on the engine instance for at most one set of datasets.
C25_OneProblemPerEngine ==
  Cardinality({ driver.fitted[k] : k \in 1..Len(driver.fitted) }) <= 1

\* C26: no exception raised while the driver loads connectomes, trains or
\* applies mappers leaves the function, and whenever the function has
\* returned the worker pool it created is closed.
C26_DriverCatchesAndCloses ==
  /\ driver.raised \in { "none", "setup" }
  /\ driver.pc = "raised" => (driver.raised = "setup" /\ driver.workers = "none")
  /\ driver.pc = "returned" => driver.workers \in { "closed", "joined" }

C26_Witness ==
  /\ driver.pc = "returned" /\ driver.workers = "closed"
  /\ driver.fn = "split" /\ Len(driver.fitted) = 1 /\ driver.ntrain = 2

\* C27: a fit call and a transform call, returning or failing, leave every
\* array the caller passed in element-wise as it was before the call.
C27_InputsUntouched ==
  [][ ret'.op \in { "fit", "transform" } => centred' = centred ]_vars

\* C28: a fit call leaves n_iterations, scaling, convergence_threshold and
\* n_features_target at the values given at construction, so that the next
\* fit on the engine runs under the same hyperparameters.
C28_ConfigurationKept ==
  [][ FitStep => /\ n_iterations' = cfg.n_iterations
                 /\ scaling' = cfg.scaling
                 /\ n_features_target' = cfg.n_features_target
                 /\ convergence_threshold' = convergence_threshold ]_vars

\* the five outputs are those one fit call, numbered c, assigned together
OutputsOf(c) ==
  /\ OutputAttrs \subseteq attrs
  /\ template.ndim = 2 /\ template.val[2] = c
  /\ Len(transformations) >= 2
  /\ Len(aligned_data) = Len(transformations)
  /\ Len(disparity) = Len(transformations)
  /\ Len(scaling_factors) = Len(transformations)
  /\ \A k \in 1..Len(transformations) :
        LET R == transformations[k].val
        IN  /\ R[3][2][2] = c
            /\ R[3][2][3] = template.val[3] /\ R[3][2][4] = template.val[4]
            /\ aligned_data[k].val = <<"mul", R[2], R>>
            /\ disparity[k] = <<"disp", R[3], aligned_data[k].val>>
            /\ scaling_factors[k] \in { <<"scale", R>>, <<"one">> }

OutputsAbsent ==
  /\ attrs \cap OutputAttrs = {}
  /\ outputs = << <<>>, NoMat, <<>>, <<>>, <<>> >>

\* C29: in every state template, transformations, aligned_data, disparity
\* and scaling_factors are all absent or all assigned by the last fit call
\* that returned, and a fit call that fails leaves the five as they were.
C29_OutputsAtomic ==
  /\ [](IF last_ok = 0 THEN OutputsAbsent ELSE OutputsOf(last_ok))
  /\ [][ (FitStep /\ ret'.err # "none") => UNCHANGED outputs ]_vars

C29_Witness ==
  /\ ret.op = "fit" /\ ret.err \notin { "none", "InsufficientData" }
  /\ ret.builds > 0 /\ ret.call = 2 /\ last_ok = 1 /\ OutputsOf(1)

\* C30: whenever training_data and aligned_data are both set they belong to
\* one fit call: aligned_data[i] is the alignment of training_data[i].
C30_TrainingMatchesAligned ==
  (training_data # None /\ "aligned_data" \in attrs)
    => /\ Len(aligned_data) = Len(training_data)
       /\ \A i \in 1..Len(training_data) :
             aligned_data[i].val[2][2] = <<"data", training_data[i]>>
=============================================================================
